---------------------------- MODULE Spec2Model ----------------------------
(***************************************************************************)
(* django-queryset-feeler: the Feel profiling facade                       *)
(* (src/src/django_queryset_feeler/__init__.py) over the Thing classifier  *)
(* and executors (src/src/django_queryset_feeler/thing.py), run against    *)
(* Django's process-wide trace log connection.queries.                     *)
(*                                                                         *)
(* Feel calls the Thing's dispatcher as self._thing.execute(); thing.py    *)
(* defines that dispatcher under the name execute_thing.  The model binds  *)
(* the call to execute_thing.                                              *)
(***************************************************************************)
EXTENDS Integers, Sequences, FiniteSets, TLC

(* ------------------------------ bounds -------------------------------- *)
MaxRows == 2          \* parent rows the data store may hold
MaxIter == 2          \* largest `iterations` a Feel is built with
MaxBlock == 2         \* statements a profiled block (or other code) may add
MaxRetry == 2         \* captures of one handle that may be attempted

(* ------------------------- program constants -------------------------- *)
DefaultIterations == 32

Handles == {"f", "g"}
Durations == {1, 2}   \* perf_counter() differences, in ticks

(* Optional values: Python's None against a list. *)
None == [isNone |-> TRUE, v |-> <<>>]
Some(x) == [isNone |-> FALSE, v |-> x]

(* --------------------------- SQL statements --------------------------- *)
SelPizza == "SELECT FROM tests_pizza"
SelTopping == "SELECT FROM tests_topping JOIN tests_pizza_toppings"
SelOne == "SELECT 1"
Junk == "PRAGMA ;;"
Statements == {SelPizza, SelTopping, SelOne, Junk}
IssueStatements == {SelTopping, SelPizza}   \* what code outside a Feel issues

(* sql_metadata.Parser(sql).tables: the tables of a statement in order of  *)
(* appearance; the parser raises ValueError on text it cannot tokenize.    *)
SQLParser(sql) ==
  CASE sql = SelPizza -> [err |-> FALSE, tables |-> <<"tests_pizza">>]
    [] sql = SelTopping -> [err |-> FALSE, tables |-> <<"tests_topping", "tests_pizza_toppings">>]
    [] sql = SelOne -> [err |-> FALSE, tables |-> <<>>]
    [] OTHER -> [err |-> TRUE, tables |-> <<>>]

(* The "time" the database backend logs next to a statement (a string).   *)
EngineTime(sql) ==
  CASE sql = SelPizza -> "0.001"
    [] sql = SelTopping -> "0.002"
    [] OTHER -> "0.000"

_extract_table(sql) ==
  LET p == SQLParser(sql)
  IN IF p.err THEN "<unknown>"
     ELSE IF Len(p.tables) > 0 THEN p.tables[1] ELSE "<unknown>"

Query(s, t, tb) == [sql |-> s, time |-> t, table |-> tb]

(* ------------------------ the things profiled ------------------------- *)
(* What the classifier and the executors can observe of a value:          *)
(*   isQuerySet  type(thing) == QuerySet                                  *)
(*   isclass     inspect.isclass(thing)                                   *)
(*   cbv / ser   a base of the class names a generic view / ModelSerializer*)
(*   callable    callable(thing)                                          *)
(*   request     'request' is in signature(thing).parameters              *)
(*   response    type of the value returned when called                   *)
(*   body        what running it does                                     *)
Attr(q, c, v, s, ca, rq, rs, b) ==
  [isQuerySet |-> q, isclass |-> c, cbv |-> v, ser |-> s, callable |-> ca,
   request |-> rq, response |-> rs, body |-> b]

Things ==
  [ qs_pizza         |-> Attr(TRUE, FALSE, FALSE, FALSE, FALSE, FALSE, "-", "one"),
    PizzaListView    |-> Attr(FALSE, TRUE, TRUE, FALSE, TRUE, FALSE, "TemplateResponse", "nplus1"),
    PizzaSerializer  |-> Attr(FALSE, TRUE, FALSE, TRUE, TRUE, FALSE, "-", "nplus1"),
    PlainClass       |-> Attr(FALSE, TRUE, FALSE, FALSE, TRUE, FALSE, "-", "none"),
    hawaiian         |-> Attr(FALSE, FALSE, FALSE, FALSE, FALSE, FALSE, "-", "one"),
    pizza_list       |-> Attr(FALSE, FALSE, FALSE, FALSE, TRUE, TRUE, "HttpResponse", "nplus1"),
    pizza_json       |-> Attr(FALSE, FALSE, FALSE, FALSE, TRUE, TRUE, "JsonResponse", "nplus1"),
    example_function |-> Attr(FALSE, FALSE, FALSE, FALSE, TRUE, FALSE, "NoneType", "nplus1"),
    mixed_function   |-> Attr(FALSE, FALSE, FALSE, FALSE, TRUE, FALSE, "NoneType", "mixed"),
    idle_function    |-> Attr(FALSE, FALSE, FALSE, FALSE, TRUE, FALSE, "NoneType", "none"),
    failing_function |-> Attr(FALSE, FALSE, FALSE, FALSE, TRUE, FALSE, "NoneType", "raise"),
    fortytwo         |-> Attr(FALSE, FALSE, FALSE, FALSE, FALSE, FALSE, "-", "none"),
    a_string         |-> Attr(FALSE, FALSE, FALSE, FALSE, FALSE, FALSE, "-", "none") ]

ThingIds == DOMAIN Things

Emit(s) == [op |-> "emit", sql |-> s]
Raise == [op |-> "raise", sql |-> "-"]

(* The statements a thing issues when it runs against a store holding     *)
(* `rows` parent rows.                                                    *)
Body(b, rows) ==
  CASE b = "one" -> <<Emit(SelPizza)>>
    [] b = "nplus1" -> <<Emit(SelPizza)>> \o [i \in 1..rows |-> Emit(SelTopping)]
    [] b = "mixed" -> <<Emit(SelTopping), Emit(SelPizza), Emit(SelOne), Emit(Junk)>>
    [] b = "raise" -> <<Emit(SelPizza), Raise>>
    [] OTHER -> <<>>

(* Derived bounds: the longest body, and the longest trace log a handler   *)
(* may leave behind (a thing that keeps raising is benchmarked again by    *)
(* every read of time, and each attempt adds to the log).                  *)
BodyMax == IF MaxRows + 1 > 4 THEN MaxRows + 1 ELSE 4
LogCap == MaxBlock + MaxIter * BodyMax

(* ------------------------- running a thing ---------------------------- *)
(* The world a handler runs in and changes:                               *)
(*   log    connection.queries, the process-wide trace log                *)
(*   rows   parent rows in the data store                                 *)
(*   exc    the exception in flight ("" when none)                        *)
(*   trace  the calls the handler has made so far                         *)
(*   n      times the body of the thing has been entered                  *)
(*   out    statements issued by the thing in the capture's invocation    *)
(*   issued every statement issued while the handler ran                  *)
(*   cached the queryset's _result_cache is populated                     *)
World(lg, r, rc) ==
  [log |-> lg, rows |-> r, exc |-> "", trace |-> <<>>, n |-> 0, out |-> <<>>, issued |-> <<>>,
   cached |-> rc]

Fail(W, e) == [W EXCEPT !.exc = e]
Note(W, ev) == [W EXCEPT !.trace = Append(@, ev)]

(* With DEBUG on, the backend appends every statement to the log.         *)
RECURSIVE Run(_, _)
Run(ops, W) ==
  IF ops = <<>> THEN W
  ELSE IF Head(ops).op = "raise" THEN Fail(W, "UnitError")
  ELSE Run(Tail(ops),
           [W EXCEPT !.log = Append(@, [sql |-> Head(ops).sql, time |-> EngineTime(Head(ops).sql)]),
                     !.out = Append(@, Head(ops).sql),
                     !.issued = Append(@, Head(ops).sql)])

(* Calling the thing: binding the arguments fails before the body is      *)
(* entered.                                                               *)
Call(t, nargs, W) ==
  LET need == IF Things[t].request THEN 1 ELSE 0
  IN IF (~Things[t].isclass) /\ (~Things[t].isQuerySet) /\ need # nargs
     THEN Fail(W, "TypeError")
     ELSE Run(Body(Things[t].body, W.rows), [W EXCEPT !.n = @ + 1])

(* --------------------------- classification --------------------------- *)
check_django_view(t, W) ==
  IF ~Things[t].request THEN [ret |-> FALSE, W |-> W]
  ELSE LET W1 == Call(t, 1, W)
       IN [ret |-> (W1.exc = "" /\ Things[t].response = "HttpResponse"), W |-> W1]

check_django_class_based_view(t) == Things[t].cbv

check_serializer(t) == Things[t].ser

(* find_thing_type with the callable test ahead of the class test.        *)
find_thing_type_callable_first(t, W) ==
  IF Things[t].isQuerySet THEN [type |-> "queryset", W |-> W]
  ELSE IF Things[t].callable THEN
    LET c == check_django_view(t, W)
    IN IF c.W.exc # "" THEN [type |-> "-", W |-> c.W]
       ELSE IF c.ret THEN [type |-> "view", W |-> c.W]
       ELSE [type |-> "function", W |-> c.W]
  ELSE IF Things[t].isclass THEN
    IF check_django_class_based_view(t) THEN [type |-> "django_cbv", W |-> W]
    ELSE IF check_serializer(t) THEN [type |-> "serializer", W |-> W]
    ELSE [type |-> "-", W |-> Fail(W, "TypeError")]
  ELSE [type |-> "-", W |-> Fail(W, "TypeError")]

(* find_thing_type that takes whatever it does not recognise for a        *)
(* function.                                                              *)
find_thing_type_default(t, W) ==
  IF Things[t].isQuerySet THEN [type |-> "queryset", W |-> W]
  ELSE IF Things[t].isclass THEN
    IF check_django_class_based_view(t) THEN [type |-> "django_cbv", W |-> W]
    ELSE IF check_serializer(t) THEN [type |-> "serializer", W |-> W]
    ELSE [type |-> "-", W |-> Fail(W, "TypeError")]
  ELSE LET c == check_django_view(t, W)
       IN IF c.W.exc # "" THEN [type |-> "-", W |-> c.W]
          ELSE IF c.ret THEN [type |-> "view", W |-> c.W]
          ELSE [type |-> "function", W |-> c.W]

find_thing_type(t, W) ==
  IF Things[t].isQuerySet THEN [type |-> "queryset", W |-> W]
  ELSE IF Things[t].isclass THEN
    IF check_django_class_based_view(t) THEN [type |-> "django_cbv", W |-> W]
    ELSE IF check_serializer(t) THEN [type |-> "serializer", W |-> W]
    ELSE [type |-> "-", W |-> Fail(W, "TypeError")]
  ELSE IF Things[t].callable THEN
    LET c == check_django_view(t, W)
    IN IF c.W.exc # "" THEN [type |-> "-", W |-> c.W]
       ELSE IF c.ret THEN [type |-> "view", W |-> c.W]
       ELSE [type |-> "function", W |-> c.W]
  ELSE [type |-> "-", W |-> Fail(W, "TypeError")]

find_executor_type(thing_type) ==
  CASE thing_type = "queryset" -> "execute_queryset"
    [] thing_type = "view" -> "execute_view"
    [] thing_type = "function" -> "execute_function"
    [] thing_type = "django_cbv" -> "execute_django_cbv"
    [] thing_type = "serializer" -> "execute_serializer"
    [] OTHER -> "TypeError"

(* ------------------------------ executors ----------------------------- *)
(* execute_queryset as list(thing): the populated _result_cache answers   *)
(* without a statement, an empty one is filled by the first evaluation.   *)
execute_queryset_cached(t, W) ==
  IF W.cached
  THEN [Note(W, "execute_queryset") EXCEPT !.n = @ + 1]
  ELSE [Call(t, 0, Note(W, "execute_queryset")) EXCEPT !.cached = TRUE]

(* list(ModelIterable(thing)) runs the statement and neither reads nor    *)
(* fills the queryset's _result_cache.                                    *)
execute_queryset(t, W) == Call(t, 0, Note(W, "execute_queryset"))

execute_view(t, W) == Call(t, 1, Note(W, "execute_view"))

\* execute_function with "except Exception: pass" in place of "raise e".
execute_function_swallow(t, W) ==
  Fail(Call(t, 0, Note(W, "execute_function")), "")

execute_function(t, W) == Call(t, 0, Note(W, "execute_function"))

execute_django_cbv(t, W) == Call(t, 1, Note(W, "execute_django_cbv"))

execute_serializer(t, W) == Call(t, 0, Note(W, "execute_serializer"))

execute_thing(F, W) ==
  CASE F.executor = "execute_queryset" -> execute_queryset(F.thing, W)
    [] F.executor = "execute_view" -> execute_view(F.thing, W)
    [] F.executor = "execute_function" -> execute_function(F.thing, W)
    [] F.executor = "execute_django_cbv" -> execute_django_cbv(F.thing, W)
    [] OTHER -> execute_serializer(F.thing, W)

(* ------------------------------- Feel --------------------------------- *)
(* A handle: the fields of a Feel (thing, thing_type and executor are     *)
(* those of its Thing) and, for bookkeeping,                              *)
(*   kind     "none" (not built), "unit" (Feel(thing)), "profile"         *)
(*   scope    of a profile() handle: "open", "closed", "aborted"          *)
(*   inv      invocations of the thing by classification, by the capture  *)
(*            and by the benchmark                                        *)
(*   emitted  the statements issued by the capture's invocation, or by    *)
(*            the profiled block while its scope was open                 *)
(*   intact   no reset_queries() has run since the scope was opened       *)
(*   reads    the values that reads of count have returned                *)
NoFeel ==
  [kind |-> "none", thing |-> "-", thing_type |-> "-", executor |-> "-",
   iterations |-> 0, queries |-> None, times |-> None, scope |-> "na",
   inv |-> [classify |-> 0, capture |-> 0, bench |-> 0],
   emitted |-> <<>>, intact |-> TRUE, reads |-> {}]

VARIABLES connection_queries, rows, feels, last, result_cache

vars == <<connection_queries, rows, feels, last, result_cache>>

reset_queries(W) == Note([W EXCEPT !.log = <<>>], "reset_queries")

(* The comprehension with "if the parser accepts q['sql']": a statement   *)
(* the parser rejects gets no record.                                     *)
snapshot_parsed_only(log) ==
  LET ok(q) == ~SQLParser(q.sql).err
      kept == SelectSeq(log, ok)
  IN [i \in 1..Len(kept) |-> Query(kept[i].sql, kept[i].time, _extract_table(kept[i].sql))]

(* The list comprehension over connection.queries.                        *)
snapshot(log) ==
  [i \in 1..Len(log) |-> Query(log[i].sql, log[i].time, _extract_table(log[i].sql))]

(* self._thing.execute(): a handle made by profile() has no _thing.       *)
thing_execute(F, W) ==
  IF F.kind = "profile" THEN Fail(W, "AttributeError") ELSE execute_thing(F, W)

(* _execute without the reset of the trace log.                           *)
_execute_noreset(F, W) ==
  IF ~F.queries.isNone THEN [F |-> F, W |-> W]
  ELSE LET W1 == Note(W, "reset_queries")
           W2 == thing_execute(F, [W1 EXCEPT !.out = <<>>])
           F2 == [F EXCEPT !.inv.capture = @ + (W2.n - W1.n),
                           !.emitted = IF F.kind = "unit" THEN W2.out ELSE @]
       IN IF W2.exc # "" THEN [F |-> F2, W |-> W2]
          ELSE [F |-> [F2 EXCEPT !.queries = Some(snapshot(W2.log))],
                W |-> Note(W2, "snapshot")]

(* _execute without the early return on a populated query cache.         *)
_execute_always(F, W) ==
  LET W1 == reset_queries(W)
      W2 == thing_execute(F, [W1 EXCEPT !.out = <<>>])
      F2 == [F EXCEPT !.inv.capture = @ + (W2.n - W1.n),
                      !.emitted = IF F.kind = "unit" THEN W2.out ELSE @]
  IN IF W2.exc # "" THEN [F |-> F2, W |-> W2]
     ELSE [F |-> [F2 EXCEPT !.queries = Some(snapshot(W2.log))],
           W |-> Note(W2, "snapshot")]

_execute(F, W) ==
  IF ~F.queries.isNone THEN [F |-> F, W |-> W]
  ELSE LET W1 == reset_queries(W)
           W2 == thing_execute(F, [W1 EXCEPT !.out = <<>>])
           F2 == [F EXCEPT !.inv.capture = @ + (W2.n - W1.n),
                           !.emitted = IF F.kind = "unit" THEN W2.out ELSE @]
       IN IF W2.exc # "" THEN [F |-> F2, W |-> W2]
          ELSE [F |-> [F2 EXCEPT !.queries = Some(snapshot(W2.log))],
                W |-> Note(W2, "snapshot")]

(* _benchmark_once that clears the trace log before the call.            *)
_benchmark_once_clearing(F, W) == thing_execute(F, reset_queries(W))

_benchmark_once(F, W) == thing_execute(F, W)

RECURSIVE BenchLoop(_, _, _)
BenchLoop(F, W, k) ==
  IF k = 0 \/ W.exc # "" THEN W ELSE BenchLoop(F, _benchmark_once(F, W), k - 1)

(* statistics.mean, kept as the exact fraction sum / length.              *)
RECURSIVE Sum(_)
Sum(ts) == IF ts = <<>> THEN 0 ELSE Head(ts) + Sum(Tail(ts))

mean(ts) == [num |-> Sum(ts), den |-> Len(ts)]

(* time without the check of the duration cache.                          *)
time_uncached(F, W, ds) ==
  LET W1 == BenchLoop(F, W, F.iterations)
  IN IF W1.exc # "" THEN [F |-> [F EXCEPT !.inv.bench = @ + (W1.n - W.n)], W |-> W1]
     ELSE [F |-> [F EXCEPT !.inv.bench = @ + (W1.n - W.n),
                           !.times = IF F.times.isNone THEN Some(ds) ELSE @],
           W |-> W1]

time(F, W, ds) ==
  LET W1 == IF F.times.isNone THEN BenchLoop(F, W, F.iterations) ELSE W
      F1 == [F EXCEPT !.inv.bench = @ + (W1.n - W.n),
                      !.times = IF F.times.isNone /\ W1.exc = "" THEN Some(ds) ELSE @]
  IN IF W1.exc # "" THEN [F |-> F1, W |-> W1]
     ELSE IF Len(F1.times.v) = 0 THEN [F |-> F1, W |-> Fail(W1, "StatisticsError")]
     ELSE [F |-> F1, W |-> W1]

(* The durations the clock may report to a benchmark of F.                *)
Clock(F) ==
  IF F.kind = "unit" /\ F.times.isNone THEN [1..F.iterations -> Durations] ELSE {<<>>}

(* count: _execute, then len(self._queries).                              *)
count(F, W) ==
  LET R == _execute(F, W)
  IN IF R.W.exc # "" THEN R
     ELSE [F |-> [R.F EXCEPT !.reads = @ \cup {Len(R.F.queries.v)}], W |-> R.W]

(* self._thing.thing_type                                                 *)
thing_type(F, W) ==
  IF F.kind = "profile" THEN [F |-> F, W |-> Fail(W, "AttributeError")] ELSE [F |-> F, W |-> W]

(* Sequencing: an exception in flight skips what follows.                 *)
ThenCount(R) == IF R.W.exc # "" THEN R ELSE count(R.F, R.W)
ThenExecute(R) == IF R.W.exc # "" THEN R ELSE _execute(R.F, R.W)
(* A composite accessor that leaves the reading of self.time out.        *)
ThenTime_skip(R, ds) == R

ThenTime(R, ds) == IF R.W.exc # "" THEN R ELSE time(R.F, R.W, ds)

(* ---------------------------- aggregation ----------------------------- *)
(* collections.Counter over an iterable: a dict, so keys stay in the      *)
(* order in which they were first inserted.                               *)
(* Counter that records a key once and never counts it again.            *)
CounterAdd_once(c, k) ==
  IF \E i \in 1..Len(c) : c[i].key = k THEN c ELSE Append(c, [key |-> k, n |-> 1])

CounterAdd(c, k) ==
  IF \E i \in 1..Len(c) : c[i].key = k
  THEN [i \in 1..Len(c) |-> IF c[i].key = k THEN [key |-> k, n |-> c[i].n + 1] ELSE c[i]]
  ELSE Append(c, [key |-> k, n |-> 1])

RECURSIVE CounterFold(_, _)
CounterFold(c, ks) ==
  IF ks = <<>> THEN c ELSE CounterFold(CounterAdd(c, Head(ks)), Tail(ks))

Counter(ks) == CounterFold(<<>>, ks)

(* sorted(items, key=lambda x: x[1], reverse=True): Python's sort is      *)
(* stable, also under reverse=True, so an item goes behind every item     *)
(* whose count is at least its own.                                       *)
(* A sort that puts an item ahead of the items of equal count.           *)
SortedInsert_unstable(s, e) ==
  LET k == Cardinality({i \in 1..Len(s) : s[i].n > e.n})
  IN SubSeq(s, 1, k) \o <<e>> \o SubSeq(s, k + 1, Len(s))

SortedInsert(s, e) ==
  LET k == Cardinality({i \in 1..Len(s) : s[i].n >= e.n})
  IN SubSeq(s, 1, k) \o <<e>> \o SubSeq(s, k + 1, Len(s))

RECURSIVE SortedFold(_, _)
SortedFold(s, items) ==
  IF items = <<>> THEN s ELSE SortedFold(SortedInsert(s, Head(items)), Tail(items))

sorted(items) == SortedFold(<<>>, items)

(* Feel.tables of a cached query list: the dict as its items in order.    *)
tables(qs) == sorted(Counter([i \in 1..Len(qs) |-> qs[i].table]))

(* Feel.queries: a copy of the cached list.                               *)
queries(qs) == [i \in 1..Len(qs) |-> qs[i]]

Line(l, t, n, d) == [label |-> l, text |-> t, n |-> n, d |-> d]

(* The lines of Feel.report, once both caches are set.                    *)
report_lines(F) ==
  LET T == tables(F.queries.v)
      m == mean(F.times.v)
      lines == << Line("query count", "", Len(F.queries.v), 1),
                  Line("duration", "ms", m.num * 1000, m.den),
                  Line("unique tables", "", Len(T), 1) >>
  IN IF T # <<>> THEN Append(lines, Line("most accessed", T[1].key, T[1].n, 1)) ELSE lines

(* The mapping Feel.to_dict() returns, once both caches are set.          *)
to_dict_value(F) ==
  LET m == mean(F.times.v)
  IN [type |-> F.thing_type,
      count |-> Len(F.queries.v),
      time_ms |-> [num |-> m.num * 1000, den |-> m.den],
      tables |-> tables(F.queries.v),
      queries |-> [i \in 1..Len(queries(F.queries.v)) |->
                     [sql |-> queries(F.queries.v)[i].sql,
                      time |-> queries(F.queries.v)[i].time,
                      table |-> queries(F.queries.v)[i].table]]]

(* What each composite accessor does to the handle and the world.         *)
report(F, W, ds) ==
  ThenExecute(ThenExecute(ThenExecute(ThenTime(count(F, W), ds))))

(* to_dict that captures afresh instead of using the cached list.        *)
to_dict_recapture(F, W, ds) ==
  ThenExecute(ThenExecute(ThenTime(ThenCount(thing_type([F EXCEPT !.queries = None], W)), ds)))

to_dict(F, W, ds) ==
  ThenExecute(ThenExecute(ThenTime(ThenCount(thing_type(F, W)), ds)))

repr(F, W, ds) ==
  ThenExecute(ThenTime(ThenCount(thing_type(F, W)), ds))

(* ------------------------------ actions ------------------------------- *)
Here == World(connection_queries, rows, result_cache)

Done(h, op, arg, W) ==
  [h |-> h, op |-> op, arg |-> arg, exc |-> W.exc, trace |-> W.trace, n |-> W.n]

Env(op) == [h |-> "-", op |-> op, arg |-> "-", exc |-> "", trace |-> <<>>, n |-> 0]

HasReset(W) == \E i \in 1..Len(W.trace) : W.trace[i] = "reset_queries"

(* What a handler that ran inside open profile() scopes did to them.      *)
Scopes(fs, W) ==
  [h \in Handles |->
     IF fs[h].scope = "open"
     THEN [fs[h] EXCEPT !.emitted = @ \o W.issued, !.intact = @ /\ ~HasReset(W)]
     ELSE fs[h]]

Commit(h, op, R) ==
  /\ Len(R.W.log) <= LogCap
  /\ R.F.inv.capture <= MaxRetry
  /\ R.F.inv.bench <= MaxIter + MaxRetry
  /\ feels' = Scopes([feels EXCEPT ![h] = R.F], R.W)
  /\ connection_queries' = R.W.log
  /\ last' = Done(h, op, "-", R.W)
  /\ result_cache' = R.W.cached
  /\ UNCHANGED rows

(* Feel(thing, iterations=n): Thing(thing) classifies, then the fields.   *)
Construct(h, t, n) ==
  /\ feels[h].kind = "none"
  /\ LET c == find_thing_type(t, Here)
     IN /\ connection_queries' = c.W.log
        /\ last' = Done(h, "Feel", t, c.W)
        /\ feels' = Scopes(IF c.W.exc # "" THEN feels
                           ELSE [feels EXCEPT ![h] =
                                   [NoFeel EXCEPT !.kind = "unit", !.thing = t,
                                                  !.thing_type = c.type,
                                                  !.executor = find_executor_type(c.type),
                                                  !.iterations = n,
                                                  !.inv.classify = c.W.n]], c.W)
  /\ UNCHANGED <<rows, result_cache>>

ReadCount(h) ==
  /\ feels[h].kind # "none"
  /\ Commit(h, "count", count(feels[h], Here))

ReadQueries(h) ==
  /\ feels[h].kind # "none"
  /\ Commit(h, "queries", _execute(feels[h], Here))

ReadSql(h) ==
  /\ feels[h].kind # "none"
  /\ Commit(h, "sql", _execute(feels[h], Here))

ReadTables(h) ==
  /\ feels[h].kind # "none"
  /\ Commit(h, "tables", _execute(feels[h], Here))

ReadTime(h) ==
  /\ feels[h].kind # "none"
  /\ \E ds \in Clock(feels[h]) : Commit(h, "time", time(feels[h], Here, ds))

ReadReport(h) ==
  /\ feels[h].kind # "none"
  /\ \E ds \in Clock(feels[h]) : Commit(h, "report", report(feels[h], Here, ds))

ToDict(h) ==
  /\ feels[h].kind # "none"
  /\ \E ds \in Clock(feels[h]) : Commit(h, "to_dict", to_dict(feels[h], Here, ds))

Repr(h) ==
  /\ feels[h].kind # "none"
  /\ \E ds \in Clock(feels[h]) : Commit(h, "repr", repr(feels[h], Here, ds))

(* profile() that leaves the trace log as it finds it.                    *)
ProfileEnter_noreset(h) ==
  /\ feels[h].kind = "none"
  /\ LET W == Note(Here, "reset_queries")
     IN /\ connection_queries' = W.log
        /\ last' = Done(h, "profile", "-", W)
        /\ feels' = [Scopes(feels, W) EXCEPT ![h] =
                       [NoFeel EXCEPT !.kind = "profile", !.iterations = DefaultIterations,
                                      !.scope = "open"]]
  /\ UNCHANGED <<rows, result_cache>>

(* with Feel.profile() as f: the code before the yield.                   *)
ProfileEnter(h) ==
  /\ feels[h].kind = "none"
  /\ LET W == reset_queries(Here)
     IN /\ connection_queries' = W.log
        /\ last' = Done(h, "profile", "-", W)
        /\ feels' = [Scopes(feels, W) EXCEPT ![h] =
                       [NoFeel EXCEPT !.kind = "profile", !.iterations = DefaultIterations,
                                      !.scope = "open"]]
  /\ UNCHANGED <<rows, result_cache>>

(* The block ends normally: the code after the yield.                     *)
(* The code after the yield, snapshotting a log kept per scope instead   *)
(* of connection.queries.                                                 *)
ProfileExit_session(h) ==
  /\ feels[h].scope = "open"
  /\ feels' = [feels EXCEPT
                 ![h].queries =
                    Some(snapshot([i \in 1..Len(feels[h].emitted) |->
                                     [sql |-> feels[h].emitted[i],
                                      time |-> EngineTime(feels[h].emitted[i])]])),
                 ![h].scope = "closed"]
  /\ last' = Done(h, "exit", "-", Note(Here, "snapshot"))
  /\ UNCHANGED <<connection_queries, rows, result_cache>>

ProfileExit(h) ==
  /\ feels[h].scope = "open"
  /\ feels' = [feels EXCEPT ![h].queries = Some(snapshot(connection_queries)),
                            ![h].scope = "closed"]
  /\ last' = Done(h, "exit", "-", Note(Here, "snapshot"))
  /\ UNCHANGED <<connection_queries, rows, result_cache>>

(* The block raises: the generator is closed at the yield.                *)
ProfileRaise(h) ==
  /\ feels[h].scope = "open"
  /\ feels' = [feels EXCEPT ![h].scope = "aborted"]
  /\ last' = Done(h, "exit", "-", Fail(Here, "UnitError"))
  /\ UNCHANGED <<connection_queries, rows, result_cache>>

(* Code outside any Feel (the body of a profiled block included) issues   *)
(* a statement.                                                           *)
Issue(sql) ==
  /\ Len(connection_queries) < MaxBlock
  /\ \A h \in Handles : feels[h].scope = "open" => Len(feels[h].emitted) < MaxBlock
  /\ connection_queries' = Append(connection_queries, [sql |-> sql, time |-> EngineTime(sql)])
  /\ feels' = [h \in Handles |->
                 IF feels[h].scope = "open"
                 THEN [feels[h] EXCEPT !.emitted = Append(@, sql)] ELSE feels[h]]
  /\ last' = Env("issue")
  /\ UNCHANGED <<rows, result_cache>>

(* Another parent row is stored.                                          *)
AddRow ==
  /\ rows < MaxRows
  /\ rows' = rows + 1
  /\ last' = Env("insert")
  /\ UNCHANGED <<connection_queries, feels, result_cache>>

(* The caller evaluates the queryset itself (list(queryset)): a statement *)
(* only while its _result_cache is empty.                                 *)
Evaluate ==
  /\ Len(connection_queries) < MaxBlock
  /\ result_cache' = TRUE
  /\ connection_queries' =
       IF result_cache THEN connection_queries
       ELSE Append(connection_queries, [sql |-> SelPizza, time |-> EngineTime(SelPizza)])
  /\ last' = Env("evaluate")
  /\ UNCHANGED <<rows, feels>>

Init ==
  /\ connection_queries = <<>>
  /\ rows = 0
  /\ feels = [h \in Handles |-> NoFeel]
  /\ last = Env("-")
  /\ result_cache = FALSE

(* One handle, any thing, any accessor, any order.                        *)
Next ==
  \/ \E t \in ThingIds, n \in 0..MaxIter : Construct("f", t, n)
  \/ ReadCount("f")
  \/ ReadQueries("f")
  \/ ReadSql("f")
  \/ ReadTables("f")
  \/ ReadTime("f")
  \/ ReadReport("f")
  \/ ToDict("f")
  \/ Repr("f")
  \/ ProfileEnter("f")
  \/ ProfileExit("f")
  \/ ProfileRaise("f")
  \/ \E sql \in IssueStatements : Issue(sql)
  \/ AddRow

Spec == Init /\ [][Next]_vars

(* Two handles side by side: f is a Feel over a thing, g comes from       *)
(* profile(); their handlers interleave in any order.                     *)
PairThings == {"qs_pizza", "example_function", "idle_function", "pizza_list"}

NextPair ==
  \/ \E t \in PairThings : Construct("f", t, 1)
  \/ ReadCount("f")
  \/ ReadTables("f")
  \/ ProfileEnter("g")
  \/ ProfileExit("g")
  \/ ProfileRaise("g")
  \/ ReadCount("g")
  \/ ReadQueries("g")
  \/ \E sql \in IssueStatements : Issue(sql)
  \/ AddRow

SpecPair == Init /\ [][NextPair]_vars

(* ============================== claims ================================ *)
CaptureOps == {"count", "queries", "tables", "sql"}

Units == {h \in Handles : feels[h].kind = "unit"}

(* The thing of F runs to completion when its executor invokes it now.    *)
Completes(F) == thing_execute(F, Here).exc = ""

OneRecordPerStatement(qs, stmts) ==
  /\ Len(qs) = Len(stmts)
  /\ \A i \in 1..Len(stmts) :
       /\ qs[i].sql = stmts[i]
       /\ qs[i].time = EngineTime(stmts[i])
       /\ qs[i].table = _extract_table(stmts[i])

C4_HandlerPrecedence ==
  \A h \in Units :
    /\ feels[h].executor = find_executor_type(feels[h].thing_type)
    /\ find_thing_type(feels[h].thing, Here).type = feels[h].thing_type
    /\ ( Things[feels[h].thing].isclass /\ Things[feels[h].thing].cbv
         /\ Things[feels[h].thing].callable )
       => /\ feels[h].thing_type = "django_cbv"
          /\ feels[h].executor = "execute_django_cbv"
          /\ ( last.h = h /\ last.op \in CaptureOps /\ last.n > 0 )
             => last.trace[2] = "execute_django_cbv"

(* C4 witness: the capture of a Feel over the list view.                  *)
C4_Witness ==
  /\ feels["f"].thing = "PizzaListView" /\ feels["f"].thing_type = "django_cbv"
  /\ last.h = "f" /\ last.op = "count" /\ last.exc = "" /\ last.n = 1

NotAThing == {"fortytwo", "a_string"}

(* C5: Feel(42) and Feel("a string") fail at construction with TypeError; *)
(* nothing is invoked, the trace log is neither cleared nor read, and no  *)
(* handle comes into being.                                               *)
C5_InvalidThingRejected ==
  [][ ( last'.op = "Feel" /\ last'.arg \in NotAThing )
      => /\ last'.exc = "TypeError"
         /\ last'.n = 0
         /\ last'.trace = <<>>
         /\ connection_queries' = connection_queries
         /\ feels' = feels ]_vars

(* C5 witness: Feel(42) has failed while the trace log held a statement.  *)
C5_Witness ==
  /\ last.op = "Feel" /\ last.arg = "fortytwo" /\ last.exc = "TypeError"
  /\ feels["f"].kind = "none"
  /\ Len(connection_queries) > 0

(* C6: Feel(instance) of a model instance is accepted by the classifier.  *)
C6_ModelInstanceAccepted ==
  ( last.op = "Feel" /\ last.arg = "hawaiian" )
  => /\ last.exc = ""
     /\ feels[last.h].kind = "unit"

Profiles == {h \in Handles : feels[h].kind = "profile"}

Captured == {h \in Handles : ~feels[h].queries.isNone}

RECURSIVE SumN(_)
SumN(T) == IF T = <<>> THEN 0 ELSE Head(T).n + SumN(Tail(T))

(* C8: after a capture the keys of tables are, without repetition, the    *)
(* table names of queries; each value is the number of queries on that    *)
(* table; the values add up to count.                                     *)
C8_TablesMatchQueries ==
  \A h \in Captured :
    LET qs == feels[h].queries.v
        T == tables(qs)
    IN /\ \A i, j \in 1..Len(T) : T[i].key = T[j].key => i = j
       /\ {T[i].key : i \in 1..Len(T)} = {qs[j].table : j \in 1..Len(qs)}
       /\ \A i \in 1..Len(T) :
            T[i].n = Cardinality({j \in 1..Len(qs) : qs[j].table = T[i].key})
       /\ SumN(T) = Len(qs)

(* C8 witness: tables read on a capture of four queries on three tables.  *)
C8_Witness ==
  /\ last.h = "f" /\ last.op = "tables" /\ last.exc = ""
  /\ Len(feels["f"].queries.v) = 4
  /\ Len(tables(feels["f"].queries.v)) = 3

FirstSeen(qs, k) == CHOOSE j \in 1..Len(qs) :
                      /\ qs[j].table = k
                      /\ \A i \in 1..(j - 1) : qs[i].table # k

(* C9: tables is in descending order of count; tables of equal count are  *)
(* in the order of their first query; the first entry is the one report   *)
(* names as most accessed.                                                *)
C9_TablesOrder ==
  \A h \in Captured :
    LET qs == feels[h].queries.v
        T == tables(qs)
    IN /\ \A i, j \in 1..Len(T) :
            i < j => \/ T[i].n > T[j].n
                     \/ /\ T[i].n = T[j].n
                        /\ FirstSeen(qs, T[i].key) < FirstSeen(qs, T[j].key)
       /\ ( ~feels[h].times.isNone /\ T # <<>> )
          => /\ Len(report_lines(feels[h])) = 4
             /\ report_lines(feels[h])[4] = Line("most accessed", T[1].key, T[1].n, 1)

(* C9 witness: report read on a capture in which two tables of equal      *)
(* count were first seen against the order of their names.                *)
C9_Witness ==
  /\ last.h = "f" /\ last.op = "report" /\ last.exc = ""
  /\ tables(feels["f"].queries.v) =
       << [key |-> "<unknown>", n |-> 2],
          [key |-> "tests_topping", n |-> 1],
          [key |-> "tests_pizza", n |-> 1] >>

C11_EmptyReport ==
  \A h \in Captured :
    ( last.h = h /\ last.op = "report"
      /\ feels[h].iterations >= 1 /\ feels[h].queries.v = <<>> )
    => /\ last.exc = ""
       /\ Len(report_lines(feels[h])) = 3
       /\ report_lines(feels[h])[1] = Line("query count", "", 0, 1)
       /\ report_lines(feels[h])[3] = Line("unique tables", "", 0, 1)

UnitRaises(t) ==
  \E i \in 1..Len(Body(Things[t].body, rows)) :
    Body(Things[t].body, rows)[i] = Raise

AccessorOps == CaptureOps \cup {"time", "report", "to_dict", "repr"}

NextQuerySet ==
  \/ \E n \in 0..MaxIter : Construct("f", "qs_pizza", n)
  \/ Evaluate
  \/ ReadCount("f")
  \/ ReadQueries("f")
  \/ ReadTime("f")
  \/ ReadReport("f")
  \/ \E sql \in IssueStatements : Issue(sql)
  \/ AddRow

SpecQuerySet == Init /\ [][NextQuerySet]_vars

QuerySets == {h \in Units : feels[h].thing_type = "queryset"}

Snapshotted ==
  \E i \in 1..Len(last.trace) : last.trace[i] = "snapshot"

NoTable(sql) == SQLParser(sql).err \/ SQLParser(sql).tables = <<>>

(* C14: a snapshot has one record per entry of the trace log, in order;  *)
(* the record of a statement the table parser fails on, or finds no       *)
(* table in, carries "<unknown>", and every other record carries the      *)
(* first table of its own statement.                                      *)
C14_UnknownTableSentinel ==
  \A h \in Captured :
    ( last.h = h /\ last.op \in CaptureOps \cup {"exit"} /\ Snapshotted )
    => /\ Len(feels[h].queries.v) = Len(connection_queries)
       /\ \A i \in 1..Len(connection_queries) :
            /\ feels[h].queries.v[i].sql = connection_queries[i].sql
            /\ feels[h].queries.v[i].time = connection_queries[i].time
            /\ feels[h].queries.v[i].table =
                 IF NoTable(connection_queries[i].sql) THEN "<unknown>"
                 ELSE SQLParser(connection_queries[i].sql).tables[1]

C14_Witness ==
  /\ "f" \in Captured /\ last.h = "f" /\ last.op = "queries" /\ Snapshotted
  /\ \E i, j, k \in 1..Len(feels["f"].queries.v) :
       /\ feels["f"].queries.v[i].sql = Junk
       /\ feels["f"].queries.v[i].table = "<unknown>"
       /\ feels["f"].queries.v[j].sql = SelOne
       /\ feels["f"].queries.v[j].table = "<unknown>"
       /\ feels["f"].queries.v[k].table = "tests_pizza"

(* C15: the query cache and the duration cache of a handle each go one  *)
(* way only: unset on a new handle, set after the first successful read   *)
(* of an accessor of theirs, and from then on set with the same contents; *)
(* a read that fills one cache leaves the other as it was.                *)
C15_CachesOneWay ==
  [][ \A h \in Handles :
        /\ feels[h].kind = "none" /\ feels'[h].kind # "none"
           => feels'[h].queries.isNone /\ feels'[h].times.isNone
        /\ ~feels[h].queries.isNone => feels'[h].queries = feels[h].queries
        /\ ~feels[h].times.isNone => feels'[h].times = feels[h].times
        /\ feels[h].kind # "none" => feels'[h].kind = feels[h].kind
        /\ ( last'.h = h /\ last'.exc = "" /\ feels[h].kind # "none" )
           => /\ last'.op \in CaptureOps
                 => ~feels'[h].queries.isNone /\ feels'[h].times = feels[h].times
              /\ last'.op = "time"
                 => ~feels'[h].times.isNone /\ feels'[h].queries = feels[h].queries ]_vars

C15_Witness ==
  /\ feels["f"].thing = "example_function"
  /\ last.h = "f" /\ last.op = "count" /\ last.n = 0
  /\ ~feels["f"].times.isNone
  /\ ~feels["f"].queries.isNone /\ Len(feels["f"].queries.v) = 1
  /\ rows = MaxRows

C17_RequestCallableIsView ==
  \A h \in Units :
    ( Things[feels[h].thing].callable /\ ~Things[feels[h].thing].isclass
      /\ Things[feels[h].thing].request )
    => /\ feels[h].thing_type = "view"
       /\ feels[h].executor = "execute_view"
       /\ ( last.h = h /\ last.op \in AccessorOps ) => last.exc # "TypeError"

(* C18: a callable that no more specific detector matches is a plain    *)
(* callable invoked with no arguments; in particular constructing a Feel  *)
(* over a class that is neither a class-based view nor a serializer       *)
(* succeeds with thing_type 'function' and executor execute_function.     *)
C18_CallableFallsThrough ==
  \A t \in ThingIds :
    ( last.op = "Feel" /\ last.arg = t
      /\ Things[t].callable /\ ~Things[t].isQuerySet
      /\ ~Things[t].cbv /\ ~Things[t].ser /\ ~Things[t].request )
    => /\ last.exc = ""
       /\ feels[last.h].thing_type = "function"
       /\ feels[last.h].executor = "execute_function"

(* C19: constructing a Feel only classifies: when the constructor        *)
(* returns, the thing has not been invoked, the trace log is as it was    *)
(* and both caches are unset; the first invocation comes with the first   *)
(* read of an accessor.                                                   *)
C19_ConstructionIsLazy ==
  [][ \A h \in Handles :
        ( last'.h = h /\ last'.op = "Feel" /\ last'.exc = "" )
        => /\ last'.n = 0
           /\ feels'[h].inv = [classify |-> 0, capture |-> 0, bench |-> 0]
           /\ connection_queries' = connection_queries
           /\ feels'[h].queries.isNone /\ feels'[h].times.isNone ]_vars

(* C20: every exit from a profile() scope, by the end of the block or by *)
(* an exception out of it, snapshots the trace log into the handle: the   *)
(* handle is captured and holds the statements issued up to the exit.     *)
C20_EveryExitSnapshots ==
  \A h \in Profiles :
    feels[h].scope \in {"closed", "aborted"}
    => /\ ~feels[h].queries.isNone
       /\ feels[h].intact
          => OneRecordPerStatement(feels[h].queries.v, feels[h].emitted)

Exited(F) == F.kind = "profile" /\ F.scope \in {"closed", "aborted"}

(* C21: on a handle from profile() whose scope has been left, a read of  *)
(* count, queries, tables or sql invokes nothing and does not clear the   *)
(* trace log, and a read of time, report, to_dict or repr runs no         *)
(* benchmark and leaves the captured list as it was.                      *)
C21_ProfileHandleHasNoUnit ==
  [][ \A h \in Handles :
        ( Exited(feels[h]) /\ last'.h = h /\ last'.op \in AccessorOps )
        => /\ last'.n = 0
           /\ connection_queries' = connection_queries
           /\ \A i \in 1..Len(last'.trace) : last'.trace[i] # "reset_queries"
           /\ feels'[h].queries = feels[h].queries
           /\ feels'[h].times.isNone
           /\ feels'[h].inv = feels[h].inv ]_vars

(* The same for a scope that was left by the end of its block.            *)
C21_AfterNormalExit ==
  [][ \A h \in Handles :
        ( feels[h].scope = "closed" /\ last'.h = h /\ last'.op \in AccessorOps )
        => /\ last'.n = 0
           /\ connection_queries' = connection_queries
           /\ feels'[h].queries = feels[h].queries
           /\ feels'[h].times.isNone ]_vars

(* The trace log that holds exactly the given statements.                *)
LogOf(stmts) ==
  [i \in 1..Len(stmts) |-> [sql |-> stmts[i], time |-> EngineTime(stmts[i])]]

(* Handle b (a Feel over a thing) captures while the scope of handle a    *)
(* is open: a's block reads an accessor of b.                             *)
CapturesInside(a, b) ==
  /\ a # b
  /\ feels[a].scope = "open" /\ feels[b].kind = "unit"
  /\ last'.h = b /\ last'.op \in CaptureOps /\ Snapshotted'

TwoThings == {"qs_pizza", "example_function"}

NextTwo ==
  \/ \E h \in Handles, t \in TwoThings : Construct(h, t, 1)
  \/ \E h \in Handles : ReadCount(h)
  \/ \E h \in Handles : ReadTime(h)
  \/ \E sql \in IssueStatements : Issue(sql)
  \/ AddRow

SpecTwo == Init /\ [][NextTwo]_vars

C24_ReadInsideScopeKeepsLog ==
  /\ [][ \A h \in Handles :
           ( feels[h].scope = "open" /\ last'.h = h /\ last'.op \in CaptureOps )
           => /\ connection_queries' = connection_queries
              /\ \A i \in 1..Len(last'.trace) : last'.trace[i] # "reset_queries"
              /\ feels'[h].intact = feels[h].intact ]_vars
  /\ [][ \A h \in Handles :
           ( feels[h].scope = "open" /\ feels'[h].scope = "closed"
             /\ \A o \in Handles \ {h} : feels[o].kind = "none" )
           => OneRecordPerStatement(feels'[h].queries.v, feels'[h].emitted) ]_vars

CompositeOps == {"report", "to_dict", "repr"}

=============================================================================
